---- MODULE Spec2Model ----
(***************************************************************************)
(* LayerZero fee-switch tracker: the daily metrics synchronisation         *)
(* pipeline (admin sync, scheduled daily sync, price resolver, price       *)
(* updates, clear) over the two storage tables daily_metrics and           *)
(* sync_status.                                                            *)
(*                                                                         *)
(* Calendar dates are day indices counted from the program epoch           *)
(* 2024-12-27 (day 0).  The server clock is UTC, so `new Date()` lies on   *)
(* day `today` at or after its midnight, and a date parsed from            *)
(* 'YYYY-MM-DD' is the midnight of its day: comparing two such instants    *)
(* is comparing their day indices.  Money is counted in US cents; an       *)
(* average fee is a rational <<numerator, denominator>>.                   *)
(***************************************************************************)
EXTENDS Integers, Sequences, FiniteSets, TLC

\* ------------------------------------------------------------------ bounds
MaxDay == 1
MaxLog == 2

Days == 0..MaxDay

\* -------------------------------------------------------- program constants
Epoch == 0
DefaultPrice == 350

\* An optional value: <<>> is absent (undefined / null), <<v>> is present.
None == <<>>
Some(v) == <<v>>

\* ------------------------------------------------------------- arithmetic
RECURSIVE GCD(_, _)
GCD(a, b) == IF b = 0 THEN a ELSE GCD(b, a % b)

Rat(n, d) == IF n = 0 THEN <<0, 1>> ELSE <<n \div GCD(n, d), d \div GCD(n, d)>>
RatZero == <<0, 1>>
RatMulInt(k, q) == Rat(k * q[1], q[2])

\* ---------------------------------------------------- analytics source
RowA == [message_count |-> 100, total_executor_fees |-> 15000,
         total_dvn_fees |-> 10000, median_protocol_fee |-> 200]
DuneRows == {RowA}

\* The messages of the errors the analytics call can throw.
DuneErrors == {"Dune query execution failed"}

calculateDuneStats(metrics) ==
  [avgFee    |-> IF metrics.message_count > 0
                 THEN Rat(metrics.total_executor_fees + metrics.total_dvn_fees,
                          metrics.message_count)
                 ELSE RatZero,
   medianFee |-> metrics.median_protocol_fee]

\* The rows of a completed query, keyed by date, as the sync consumes them.
fetchLayerZeroDailyMetricsFromDune(rows) ==
  [d \in DOMAIN rows |->
     [messageCount |-> rows[d].message_count,
      avgFee       |-> calculateDuneStats(rows[d]).avgFee,
      medianFee    |-> calculateDuneStats(rows[d]).medianFee]]

\* --------------------------------------------------------- price source
\* simple/price: the call fails, or answers with a usd figure (0: missing).
\* A current-price call that answers 0 instead of the default when it fails.
getCurrentZROPrice_NoFallback(cur) == IF cur.ok THEN cur.usd ELSE 0

getCurrentZROPrice(cur) ==
  IF cur.ok /\ cur.usd # 0 THEN cur.usd ELSE DefaultPrice

\* Price Resolver.  dates: a sequence of day indices; priceMap: a function
\* whose domain is the set of dates with a known price.
\* A search that never finds a date with a known price.
firstKnownIndex_None(dates, priceMap) == 0

firstKnownIndex(dates, priceMap) ==
  IF \E i \in 1..Len(dates) : dates[i] \in DOMAIN priceMap
  THEN CHOOSE i \in 1..Len(dates) :
         /\ dates[i] \in DOMAIN priceMap
         /\ \A j \in 1..(i - 1) : dates[j] \notin DOMAIN priceMap
  ELSE 0

RECURSIVE fillLoop(_, _, _, _, _, _)
fillLoop(dates, priceMap, first, i, lastKnownPrice, filledMap) ==
  IF i > Len(dates) THEN filledMap
  ELSE LET date == dates[i]
           put(v) == [d \in DOMAIN filledMap \cup {date} |->
                        IF d = date THEN v ELSE filledMap[d]]
       IN  IF date \in DOMAIN priceMap
           THEN fillLoop(dates, priceMap, first, i + 1,
                         priceMap[date], put(priceMap[date]))
           ELSE IF first # 0 /\ date < dates[first]
           THEN fillLoop(dates, priceMap, first, i + 1,
                         lastKnownPrice, put(priceMap[dates[first]]))
           ELSE fillLoop(dates, priceMap, first, i + 1,
                         lastKnownPrice, put(lastKnownPrice))

\* A resolver that fills no gap: it returns the known prices only.
fillMissingPrices_KnownOnly(dates, priceMap, fallbackPrice) ==
  [d \in {dates[i] : i \in 1..Len(dates)} \cap DOMAIN priceMap |-> priceMap[d]]

fillMissingPrices(dates, priceMap, fallbackPrice) ==
  LET first == firstKnownIndex(dates, priceMap)
      firstKnownPrice == IF first = 0 THEN 0 ELSE priceMap[dates[first]]
      start == IF firstKnownPrice # 0 THEN firstKnownPrice ELSE fallbackPrice
  IN  fillLoop(dates, priceMap, first, 1, start, <<>>)


\* ---------------------------------------------------------------- state
VARIABLES
  today,          \* the calendar day of the server clock
  daily_metrics,  \* table daily_metrics: date -> row (date is UNIQUE)
  sync_status,    \* table sync_status, in id order
  response,       \* the HTTP response of the request handled last
  observed,       \* what the handler of that request was given and did
  input,          \* the arguments of a call of a pure function
  output,         \* the result of that call, None before it returns
  poll,           \* a call of pollDuneResults: its loop counter and outcome
  syncs           \* sync handlers running side by side: each one's position

\* No call of pollDuneResults in hand; no handler running side by side.
NoPoll == [attempt |-> 0, polls |-> 0, outcome |-> "none"]
NoSyncs == <<>>

vars == <<today, daily_metrics, sync_status, response, observed, input, output,
          poll, syncs>>

\* ------------------------------------------------------------- storage
\* INSERT ... ON CONFLICT(date) DO UPDATE SET <every column>
\* An upsert that adds the new message count to the stored one instead of
\* replacing it.
upsertDailyMetric_Accumulate(table, metric) ==
  [d \in DOMAIN table \cup {metric.date} |->
     IF d = metric.date
     THEN [message_count   |-> metric.messageCount +
                               (IF d \in DOMAIN table
                                THEN table[d].message_count ELSE 0),
           avg_gas_paid    |-> metric.avgGasPaid,
           median_gas_paid |-> metric.medianGasPaid,
           total_fee_usd   |-> metric.totalFeeUSD,
           zro_price       |-> metric.zroPrice]
     ELSE table[d]]

upsertDailyMetric(table, metric) ==
  [d \in DOMAIN table \cup {metric.date} |->
     IF d = metric.date
     THEN [message_count   |-> metric.messageCount,
           avg_gas_paid    |-> metric.avgGasPaid,
           median_gas_paid |-> metric.medianGasPaid,
           total_fee_usd   |-> metric.totalFeeUSD,
           zro_price       |-> metric.zroPrice]
     ELSE table[d]]

\* SELECT * FROM sync_status ORDER BY id DESC LIMIT 1
\* A query that sorts the wrong way round (ORDER BY id ASC).
getLastSyncStatus_Oldest(log) ==
  IF Len(log) = 0 THEN None ELSE Some(log[1])

getLastSyncStatus(log) ==
  IF Len(log) = 0 THEN None ELSE Some(log[Len(log)])

\* status.errorMessage || null
insertSyncStatus(log, status) ==
  Append(log, [last_sync_date |-> status.lastSyncDate,
               status         |-> status.status,
               messages_synced |-> status.messagesSynced,
               error_message  |-> IF status.errorMessage = ""
                                  THEN None ELSE Some(status.errorMessage)])

\* The message of the error a failing storage call throws.
StorageError == "SQLITE_ERROR: storage call failed"

\* Where the storage fails while one request is handled: nowhere, at the
\* read of the last sync status, at the at-th upsert, or at the insert of
\* the success entry; log: the insert of the error entry fails as well.
StorageFaults(n) ==
  [kind : {"none", "read", "insert"}, at : {0}, log : BOOLEAN]
    \cup [kind : {"upsert"}, at : 1..n, log : BOOLEAN]

\* ------------------------------------------------------ the sync pipeline
\* for (const date of dates) { ...; await upsertDailyMetric(metric); }
\* A date loop that stops before the end date (current < end).
dateArray_ExclusiveEnd(fromDate, toDate) ==
  [i \in 1..(IF toDate > fromDate THEN toDate - fromDate ELSE 0) |->
     fromDate + i - 1]

dateArray(fromDate, toDate) ==
  [i \in 1..(IF toDate >= fromDate THEN toDate - fromDate + 1 ELSE 0) |->
     fromDate + i - 1]

\* A record whose total is taken from the median fee instead of the average.
buildMetric_MedianTotal(date, lzMetrics, filledPrices, currentPrice) ==
  LET has == date \in DOMAIN lzMetrics
      messageCount == IF has THEN lzMetrics[date].messageCount ELSE 0
  IN  [date          |-> date,
       messageCount  |-> messageCount,
       avgGasPaid    |-> IF has THEN lzMetrics[date].avgFee ELSE RatZero,
       medianGasPaid |-> IF has THEN lzMetrics[date].medianFee ELSE 0,
       totalFeeUSD   |-> IF has
                         THEN Rat(messageCount * lzMetrics[date].medianFee, 1)
                         ELSE RatZero,
       zroPrice      |-> IF filledPrices[date] # 0
                         THEN filledPrices[date] ELSE currentPrice]

buildMetric(date, lzMetrics, filledPrices, currentPrice) ==
  LET has == date \in DOMAIN lzMetrics
      messageCount == IF has THEN lzMetrics[date].messageCount ELSE 0
      avgFee == IF has THEN lzMetrics[date].avgFee ELSE RatZero
      medianFee == IF has THEN lzMetrics[date].medianFee ELSE 0
  IN  [date          |-> date,
       messageCount  |-> messageCount,
       avgGasPaid    |-> avgFee,
       medianGasPaid |-> medianFee,
       totalFeeUSD   |-> RatMulInt(messageCount, avgFee),
       zroPrice      |-> IF filledPrices[date] # 0
                         THEN filledPrices[date] ELSE currentPrice]

RECURSIVE upsertAll(_, _, _, _, _, _)
upsertAll(table, dates, n, lzMetrics, filledPrices, currentPrice) ==
  IF n = 0 THEN table
  ELSE upsertDailyMetric(
         upsertAll(table, dates, n - 1, lzMetrics, filledPrices, currentPrice),
         buildMetric(dates[n], lzMetrics, filledPrices, currentPrice))


\* ------------------------------------------- historical price samples
\* A sample of market_chart/range is [day, sec, price]: its timestamp lies
\* sec seconds into calendar day `day`.  Timestamps are counted in seconds
\* since 1970 here (the code's milliseconds exceed the integers of the
\* checker); Day0Seconds is 2024-12-27T00:00:00Z.
Day0Seconds == 1735257600
SecondsPerDay == 86400
timestamp(sample) == Day0Seconds + sample.day * SecondsPerDay + sample.sec

\* data.prices.forEach(([timestamp, price]) => { if (!priceMap.has(dateStr)
\*   || timestamp > (priceMap.get(dateStr) || 0)) priceMap.set(dateStr, price) })
RECURSIVE collapseSamples(_, _)
collapseSamples(prices, n) ==
  IF n = 0 THEN <<>>
  ELSE LET priceMap == collapseSamples(prices, n - 1)
           dateStr == prices[n].day
       IN  IF \/ dateStr \notin DOMAIN priceMap
              \/ timestamp(prices[n]) > priceMap[dateStr]
           THEN [d \in DOMAIN priceMap \cup {dateStr} |->
                   IF d = dateStr THEN prices[n].price ELSE priceMap[d]]
           ELSE priceMap

\* hist: the call fails (and the empty map is returned), or answers with a
\* list of samples.
getHistoricalZROPrices(hist) ==
  IF hist.ok THEN collapseSamples(hist.prices, Len(hist.prices)) ELSE <<>>

\* ------------------------------------------------- sync, after the range
\* A success entry that does not carry the number of records written.
successEntry_NoCount(toDate, recordsInserted) ==
  [lastSyncDate |-> toDate, status |-> "success",
   messagesSynced |-> 0, errorMessage |-> ""]

successEntry(toDate, recordsInserted) ==
  [lastSyncDate |-> toDate, status |-> "success",
   messagesSynced |-> recordsInserted, errorMessage |-> ""]

\* An error entry that drops the message of the failure.
errorEntry_NoMessage(now, message) ==
  [lastSyncDate |-> now, status |-> "error", messagesSynced |-> 0,
   errorMessage |-> ""]

errorEntry(now, message) ==
  [lastSyncDate |-> now, status |-> "error", messagesSynced |-> 0,
   errorMessage |-> message]

\* catch (error) { try { insertSyncStatus(error) } catch (logError) {} ;
\*   return 500 }
syncFailed(table, log, now, message, fault) ==
  [table    |-> table,
   log      |-> IF fault.log THEN log ELSE insertSyncStatus(log, errorEntry(now, message)),
   response |-> [status |-> 500, success |-> FALSE, skipped |-> FALSE,
                 recordsInserted |-> 0, recordsUpdated |-> 0,
                 dateRange |-> None,
                 details |-> message, needsSync |-> FALSE, data |-> None]]

\* The body of both sync handlers from the analytics fetch on.
\* dune, cur, hist: the answers of the three external calls; fault: where
\* the storage fails.
syncRange(table, log, now, fromDate, toDate, dune, cur, hist, fault) ==
  IF ~dune.ok THEN syncFailed(table, log, now, dune.error, fault)
  ELSE
    LET lzMetrics == fetchLayerZeroDailyMetricsFromDune(dune.rows)
        currentPrice == getCurrentZROPrice(cur)
        historicalPrices == getHistoricalZROPrices(hist)
        dates == dateArray(fromDate, toDate)
        filledPrices == fillMissingPrices(dates, historicalPrices, currentPrice)
        written(n) == upsertAll(table, dates, n, lzMetrics, filledPrices, currentPrice)
    IN  IF fault.kind = "upsert" /\ fault.at <= Len(dates)
        THEN syncFailed(written(fault.at - 1), log, now, StorageError, fault)
        ELSE IF fault.kind = "insert"
        THEN syncFailed(written(Len(dates)), log, now, StorageError, fault)
        ELSE [table    |-> written(Len(dates)),
              log      |-> insertSyncStatus(log, successEntry(toDate, Len(dates))),
              response |-> [status |-> 200, success |-> TRUE, skipped |-> FALSE,
                            recordsInserted |-> Len(dates), recordsUpdated |-> 0,
                            dateRange |-> Some(<<fromDate, toDate>>),
                            details |-> "", needsSync |-> FALSE,
                            data |-> None]]


\* ------------------------------------------------ the external answers
RangeDays(fromDate, toDate) == {d \in Days : fromDate <= d /\ d <= toDate}

\* The analytics query fails, or completes with one row for each day of
\* some days of the queried range.
DuneAnswers(fromDate, toDate) ==
  {[called |-> TRUE, ok |-> FALSE, error |-> e, rows |-> <<>>] : e \in DuneErrors}
    \cup {[called |-> TRUE, ok |-> TRUE, error |-> "", rows |-> f] :
            f \in UNION {[S -> DuneRows] : S \in SUBSET RangeDays(fromDate, toDate)}}
NoDuneCall == [called |-> FALSE, ok |-> FALSE, error |-> "", rows |-> <<>>]

\* simple/price fails, or answers without a usd figure (0), or with one.
ApiPrices == {0, 400}
CurAnswers ==
  {[called |-> TRUE, ok |-> FALSE, usd |-> 0]}
    \cup {[called |-> TRUE, ok |-> TRUE, usd |-> u] : u \in ApiPrices}
NoCurCall == [called |-> FALSE, ok |-> FALSE, usd |-> 0]

\* market_chart/range fails, or answers with no sample, or with one sample
\* of a day of the range, whose price may be 0.
SamplePrices == {0, 200}
Samples(fromDate, toDate) ==
  [day : RangeDays(fromDate, toDate), sec : {0}, price : SamplePrices]
HistAnswers(fromDate, toDate) ==
  {[called |-> TRUE, ok |-> FALSE, prices |-> <<>>],
   [called |-> TRUE, ok |-> TRUE, prices |-> <<>>]}
    \cup {[called |-> TRUE, ok |-> TRUE, prices |-> <<x>>] :
            x \in Samples(fromDate, toDate)}
NoHistCall == [called |-> FALSE, ok |-> FALSE, prices |-> <<>>]

\* The answers of the price source explored together with a storage fault.
FaultCur == [called |-> TRUE, ok |-> TRUE, usd |-> 400]
FaultHist == [called |-> TRUE, ok |-> TRUE, prices |-> <<>>]

NoFault == [kind |-> "none", at |-> 0, log |-> FALSE]

\* What one run of the pipeline over a range can meet: the three external
\* answers and the storage fault.
Encounters(fromDate, toDate) ==
  {[dune |-> dune, cur |-> NoCurCall, hist |-> NoHistCall,
    fault |-> [NoFault EXCEPT !.log = log]] :
      dune \in {a \in DuneAnswers(fromDate, toDate) : ~a.ok}, log \in BOOLEAN}
    \cup {[dune |-> dune, cur |-> cur, hist |-> hist, fault |-> NoFault] :
            dune \in {a \in DuneAnswers(fromDate, toDate) : a.ok},
            cur \in CurAnswers, hist \in HistAnswers(fromDate, toDate)}
    \cup {[dune |-> dune, cur |-> FaultCur, hist |-> FaultHist, fault |-> fault] :
            dune \in {a \in DuneAnswers(fromDate, toDate) : a.ok},
            fault \in {f \in StorageFaults(Len(dateArray(fromDate, toDate))) :
                         f.kind \in {"upsert", "insert"}}}

\* ------------------------------------------------------------ requests
OptDate == {None} \cup {Some(d) : d \in Days}
Bodies == [startDate : OptDate, endDate : OptDate, force : BOOLEAN]
NoBody == [startDate |-> None, endDate |-> None, force |-> FALSE]

\* if (startDate && endDate) {...} else { lastSync = getLastSyncStatus() ... }
adminExplicit(body) == body.startDate # None /\ body.endDate # None

\* A range computation that does not look at the force flag.
adminRange_IgnoresForce(body, log, now) ==
  IF adminExplicit(body)
  THEN <<body.startDate[1], body.endDate[1]>>
  ELSE IF getLastSyncStatus(log) # None
       THEN <<getLastSyncStatus(log)[1].last_sync_date + 1, now>>
       ELSE <<Epoch, now>>

adminRange(body, log, now) ==
  IF adminExplicit(body)
  THEN <<body.startDate[1], body.endDate[1]>>
  ELSE IF getLastSyncStatus(log) # None /\ ~body.force
       THEN <<getLastSyncStatus(log)[1].last_sync_date + 1, now>>
       ELSE <<Epoch, now>>

\* A range that starts on the date of the last entry, not the day after.
cronRange_FromLastDate(log, now) ==
  IF getLastSyncStatus(log) # None
  THEN <<getLastSyncStatus(log)[1].last_sync_date, now>>
  ELSE <<Epoch, now>>

cronRange(log, now) ==
  IF getLastSyncStatus(log) # None
  THEN <<getLastSyncStatus(log)[1].last_sync_date + 1, now>>
  ELSE <<Epoch, now>>

NoResponse == [status |-> 0, success |-> FALSE, skipped |-> FALSE,
               recordsInserted |-> 0, recordsUpdated |-> 0,
               dateRange |-> None, details |-> "", needsSync |-> FALSE,
               data |-> None]

\* What a request to the scheduled trigger comes with: NODE_ENV is
\* production, CRON_SECRET is set, the Authorization header is
\* 'Bearer <CRON_SECRET>'.
Credentials == [production : BOOLEAN, cronSecret : BOOLEAN, bearer : BOOLEAN]
NoCredentials == [production |-> FALSE, cronSecret |-> FALSE, bearer |-> FALSE]

Nothing == [op |-> "none", body |-> NoBody, range |-> None,
            dune |-> NoDuneCall, cur |-> NoCurCall, hist |-> NoHistCall,
            fault |-> "none", logFault |-> FALSE, auth |-> NoCredentials]

\* Requests are handled one after the other (request-scoped execution): a
\* handler starts when the response of the previous request has been sent.
Idle == observed.op = "none"

HandledFor(auth, op, body, range, met, out) ==
  /\ daily_metrics' = out.table
  /\ sync_status' = out.log
  /\ response' = out.response
  /\ observed' = [op |-> op, body |-> body, range |-> range,
                  dune |-> met.dune, cur |-> met.cur, hist |-> met.hist,
                  fault |-> met.fault.kind, logFault |-> met.fault.log,
                  auth |-> auth]
  /\ UNCHANGED <<today, input, output, poll, syncs>>

Handled(op, body, range, met, out) ==
  HandledFor(NoCredentials, op, body, range, met, out)

ReadFault(log) ==
  [dune |-> NoDuneCall, cur |-> NoCurCall, hist |-> NoHistCall,
   fault |-> [kind |-> "read", at |-> 0, log |-> log]]

\* POST /api/admin/sync with a body of `bodies`
AdminSyncWith(bodies) ==
  /\ Idle
  /\ Len(sync_status) < MaxLog
  /\ \E body \in bodies :
       \/ \* the read of the last sync status throws
          /\ ~adminExplicit(body)
          /\ \E log \in BOOLEAN :
               Handled("sync", body, None, ReadFault(log),
                       syncFailed(daily_metrics, sync_status, today,
                                  StorageError, ReadFault(log).fault))
       \/ LET range == adminRange(body, sync_status, today) IN
          \E met \in Encounters(range[1], range[2]) :
            Handled("sync", body, Some(range), met,
                    syncRange(daily_metrics, sync_status, today, range[1], range[2],
                              met.dune, met.cur, met.hist, met.fault))

AdminSync == AdminSyncWith(Bodies)

\* GET /api/cron/daily-sync
\* process.env.NODE_ENV === 'production' && cronSecret, and then
\* authHeader !== `Bearer ${cronSecret}`
unauthorized(auth) == auth.production /\ auth.cronSecret /\ ~auth.bearer

DailySync ==
  /\ Idle
  /\ Len(sync_status) < MaxLog
  /\ \E auth \in Credentials :
       IF unauthorized(auth)
       THEN /\ response' = [status |-> 401, success |-> FALSE, skipped |-> FALSE,
                            recordsInserted |-> 0, recordsUpdated |-> 0,
                            dateRange |-> None,
                            details |-> "Unauthorized", needsSync |-> FALSE,
                            data |-> None]
            /\ observed' = [Nothing EXCEPT !.op = "cron", !.fault = "unauthorized",
                                           !.auth = auth]
            /\ UNCHANGED <<today, daily_metrics, sync_status, input, output, poll, syncs>>
       ELSE
         \/ \E log \in BOOLEAN :
              HandledFor(auth, "cron", NoBody, None, ReadFault(log),
                         syncFailed(daily_metrics, sync_status, today,
                                    StorageError, ReadFault(log).fault))
         \/ LET range == cronRange(sync_status, today) IN
            IF range[1] > range[2]
            THEN \* Already up to date
                 HandledFor(auth, "cron", NoBody, Some(range),
                            [dune |-> NoDuneCall, cur |-> NoCurCall,
                             hist |-> NoHistCall, fault |-> NoFault],
                            [table |-> daily_metrics, log |-> sync_status,
                             response |-> [status |-> 200, success |-> TRUE,
                                           skipped |-> TRUE, recordsInserted |-> 0,
                                           recordsUpdated |-> 0, dateRange |-> None,
                                           details |-> "Already up to date",
                                           needsSync |-> FALSE, data |-> None]])
            ELSE \E met \in Encounters(range[1], range[2]) :
                   HandledFor(auth, "cron", NoBody, Some(range), met,
                              syncRange(daily_metrics, sync_status, today,
                                        range[1], range[2],
                                        met.dune, met.cur, met.hist, met.fault))

\* UPDATE daily_metrics SET zro_price = ? WHERE date = ?  for each update
\* <<date, price>> in order; failed: the positions whose UPDATE throws
\* (caught per row).  The result is <<table, recordsUpdated>>.  A row is
\* counted on Postgres (result.count > 0); on SQLite the promisified
\* db.run resolves with no value, reading result.changes throws after the
\* UPDATE has run, and the row is not counted.
\* A price update that creates the row of a date it does not find.
RECURSIVE updatePrices_Upsert(_, _, _, _, _)
updatePrices_Upsert(table, updates, n, failed, postgres) ==
  IF n = 0 THEN <<table, 0>>
  ELSE LET before == updatePrices_Upsert(table, updates, n - 1, failed, postgres)
           date == updates[n][1]
       IN  IF n \in failed THEN before
           ELSE <<[d \in DOMAIN before[1] \cup {date} |->
                     IF d # date THEN before[1][d]
                     ELSE IF d \in DOMAIN before[1]
                          THEN [before[1][d] EXCEPT !.zro_price = updates[n][2]]
                          ELSE [message_count |-> 0, avg_gas_paid |-> RatZero,
                                median_gas_paid |-> 0, total_fee_usd |-> RatZero,
                                zro_price |-> updates[n][2]]],
                  before[2] + 1>>

RECURSIVE updatePrices(_, _, _, _, _)
updatePrices(table, updates, n, failed, postgres) ==
  IF n = 0 THEN <<table, 0>>
  ELSE LET before == updatePrices(table, updates, n - 1, failed, postgres)
           date == updates[n][1]
       IN  IF n \in failed \/ date \notin DOMAIN before[1]
           THEN before
           ELSE <<[before[1] EXCEPT ![date].zro_price = updates[n][2]],
                  IF postgres THEN before[2] + 1 ELSE before[2]>>

PriceUpdated(op, out) ==
  /\ daily_metrics' = out[1]
  /\ response' = [NoResponse EXCEPT !.status = 200, !.success = TRUE,
                                   !.recordsUpdated = out[2]]
  /\ observed' = [Nothing EXCEPT !.op = op]
  /\ UNCHANGED <<today, sync_status, input, output, poll, syncs>>

Refused(op, status, details) ==
  /\ response' = [NoResponse EXCEPT !.status = status, !.details = details]
  /\ observed' = [Nothing EXCEPT !.op = op]
  /\ UNCHANGED <<today, daily_metrics, sync_status, input, output, poll, syncs>>

\* POST /api/admin/update-prices-batch, body { prices: { date: price } }
MaxUpdates == 2
PostedPrices == {0, 200}
UpdateLists ==
  UNION {[1..n -> Days \X PostedPrices] : n \in 0..MaxUpdates}

UpdatePricesBatch ==
  /\ Idle
  /\ \E prices \in UpdateLists :
       IF Len(prices) = 0
       THEN Refused("update-prices-batch", 400, "No prices provided")
       ELSE \E failed \in SUBSET (1..Len(prices)), postgres \in BOOLEAN :
              PriceUpdated("update-prices-batch",
                           updatePrices(daily_metrics, prices, Len(prices),
                                        failed, postgres))

\* POST /api/admin/update-prices: the lines of zro_shadow_burn_data.csv
\* after the header; a line is <<date, daily_avg>> once parsed, dropped when
\* the date is empty or parseFloat(daily_avg) is NaN.
CsvFiles == {None} \cup {Some(lines) : lines \in UpdateLists}

UpdatePricesCsv ==
  /\ Idle
  /\ \E csv \in CsvFiles :
       IF csv = None
       THEN Refused("update-prices", 404, "CSV file not found: zro_shadow_burn_data.csv")
       ELSE \E failed \in SUBSET (1..Len(csv[1])), postgres \in BOOLEAN :
              PriceUpdated("update-prices",
                           updatePrices(daily_metrics, csv[1], Len(csv[1]),
                                        failed, postgres))

\* POST /api/admin/clear: DELETE FROM daily_metrics; DELETE FROM
\* layerzero_messages; DELETE FROM sync_status.  failAt: the statement that
\* throws (0: none).
\* A clear that leaves the sync status log as it is.
clearTables_KeepsLog(table, log, failAt) ==
  [table |-> IF failAt = 1 THEN table ELSE <<>>, log |-> log]

clearTables(table, log, failAt) ==
  [table |-> IF failAt = 1 THEN table ELSE <<>>,
   log   |-> IF failAt = 0 THEN <<>> ELSE log]

Clear ==
  /\ Idle
  /\ \E failAt \in 0..3 :
       /\ daily_metrics' = clearTables(daily_metrics, sync_status, failAt).table
       /\ sync_status' = clearTables(daily_metrics, sync_status, failAt).log
       /\ response' = IF failAt = 0
                      THEN [NoResponse EXCEPT !.status = 200, !.success = TRUE]
                      ELSE [NoResponse EXCEPT !.status = 500,
                                              !.details = StorageError]
       /\ observed' = [Nothing EXCEPT !.op = "clear",
                                      !.fault = IF failAt = 0 THEN "none" ELSE "delete"]
       /\ UNCHANGED <<today, input, output, poll, syncs>>

\* ---------------------------------------------------------- read path
\* SELECT COUNT(*) FROM daily_metrics > 0
hasData(table) == Cardinality(DOMAIN table) > 0

RECURSIVE rowsAscending(_, _)
rowsAscending(table, dates) ==
  IF dates = {} THEN <<>>
  ELSE LET d == CHOOSE x \in dates : \A y \in dates : x <= y
       IN  <<[date          |-> d,
              messageCount  |-> table[d].message_count,
              avgGasPaid    |-> table[d].avg_gas_paid,
              medianGasPaid |-> table[d].median_gas_paid,
              totalFeeUSD   |-> table[d].total_fee_usd,
              zroPrice      |-> table[d].zro_price]>>
             \o rowsAscending(table, dates \ {d})

\* A query that leaves the end date out of the range (date < ?).
getDailyMetrics_ExclusiveEnd(table, startDate, endDate) ==
  rowsAscending(table, {d \in DOMAIN table : startDate <= d /\ d < endDate})

\* SELECT * FROM daily_metrics WHERE date >= ? AND date <= ? ORDER BY date
getDailyMetrics(table, startDate, endDate) ==
  rowsAscending(table, {d \in DOMAIN table : startDate <= d /\ d <= endDate})

Answered(op, body, fault, cur, answer) ==
  /\ response' = answer
  /\ observed' = [Nothing EXCEPT !.op = op, !.body = body, !.fault = fault,
                                 !.cur = cur]
  /\ UNCHANGED <<today, daily_metrics, sync_status, input, output, poll, syncs>>

ReadFailed(details) ==
  [NoResponse EXCEPT !.status = 500, !.details = details]

\* GET /api/metrics?start=&end=   fault: the storage call that throws.
GetMetrics ==
  /\ Idle
  /\ \E start \in OptDate, end \in OptDate :
       LET query == [startDate |-> start, endDate |-> end, force |-> FALSE]
       IN  IF start = None \/ end = None
           THEN Answered("metrics", query, "none", NoCurCall,
                         [NoResponse EXCEPT !.status = 400,
                            !.details = "Missing start or end date parameters"])
           ELSE \/ Answered("metrics", query, "hasData", NoCurCall,
                            ReadFailed("Failed to fetch metrics"))
                \/ /\ ~hasData(daily_metrics)
                   /\ Answered("metrics", query, "none", NoCurCall,
                               [NoResponse EXCEPT !.status = 404,
                                  !.needsSync = TRUE,
                                  !.details = "No data available. Database needs to be initialized."])
                \/ /\ hasData(daily_metrics)
                   /\ Answered("metrics", query, "getDailyMetrics", NoCurCall,
                               ReadFailed("Failed to fetch metrics"))
                \/ /\ hasData(daily_metrics)
                   /\ \E cur \in CurAnswers :
                        Answered("metrics", query, "none", cur,
                                 [NoResponse EXCEPT !.status = 200,
                                    !.data = Some(
                                      [metrics |-> getDailyMetrics(
                                                     daily_metrics, start[1], end[1]),
                                       currentZROPrice |-> getCurrentZROPrice(cur)])])

\* GET /api/admin/sync
GetSyncStatus ==
  /\ Idle
  /\ \/ Answered("sync-status", NoBody, "read", NoCurCall,
                 ReadFailed("Failed to check sync status"))
     \/ Answered("sync-status", NoBody, "none", NoCurCall,
                 [NoResponse EXCEPT !.status = 200,
                    !.data = Some([lastSync |-> getLastSyncStatus(sync_status)])])

\* GET /api/admin/init
GetInitStatus ==
  /\ Idle
  /\ \/ Answered("init-status", NoBody, "read", NoCurCall,
                 ReadFailed("Failed to check initialization status"))
     \/ Answered("init-status", NoBody, "none", NoCurCall,
                 [NoResponse EXCEPT !.status = 200,
                    !.data = Some([initialized |-> hasData(daily_metrics)])])

\* POST /api/admin/init
\* The start date the handler posts to the sync endpoint, '2025-12-27', as
\* a day index: 365 days after the epoch.
InitStart == 365

\* body: JSON.stringify({ startDate: '2025-12-27', endDate: today, force: true })
initBody(now) == [startDate |-> Some(InitStart), endDate |-> Some(now), force |-> TRUE]

\* The response built from the response of the sync endpoint.
initResponse(data) ==
  IF data.status = 200
  THEN [data EXCEPT !.details = "Database initialized successfully"]
  ELSE [NoResponse EXCEPT !.status = 500, !.details = "Failed to sync data"]

\* hasData throws, or the table has data (400), or the request to the sync
\* endpoint fails, or the sync endpoint handles the posted body: the
\* upserts and the status entry are those of POST /api/admin/sync.
InitDatabase ==
  /\ Idle
  /\ Len(sync_status) < MaxLog
  /\ \/ /\ response' = [NoResponse EXCEPT !.status = 500, !.details = StorageError]
        /\ observed' = [Nothing EXCEPT !.op = "init", !.fault = "read"]
        /\ UNCHANGED <<today, daily_metrics, sync_status, input, output, poll, syncs>>
     \/ /\ hasData(daily_metrics)
        /\ response' = [NoResponse EXCEPT
                          !.status = 400,
                          !.details = "Database already has data. Use /api/admin/sync to update."]
        /\ observed' = [Nothing EXCEPT !.op = "init"]
        /\ UNCHANGED <<today, daily_metrics, sync_status, input, output, poll, syncs>>
     \/ /\ ~hasData(daily_metrics)
        /\ response' = [NoResponse EXCEPT !.status = 500, !.details = "fetch failed"]
        /\ observed' = [Nothing EXCEPT !.op = "init", !.body = initBody(today),
                                       !.fault = "fetch"]
        /\ UNCHANGED <<today, daily_metrics, sync_status, input, output, poll, syncs>>
     \/ /\ ~hasData(daily_metrics)
        /\ LET body == initBody(today)
               range == adminRange(body, sync_status, today)
           IN  \E met \in Encounters(range[1], range[2]) :
                 LET out == syncRange(daily_metrics, sync_status, today,
                                      range[1], range[2],
                                      met.dune, met.cur, met.hist, met.fault)
                 IN  Handled("init", body, Some(range), met,
                             [out EXCEPT !.response = initResponse(out.response)])

\* The response is sent and the request is over.
Deliver ==
  /\ ~Idle
  /\ response' = NoResponse
  /\ observed' = Nothing
  /\ UNCHANGED <<today, daily_metrics, sync_status, input, output, poll, syncs>>

Tick ==
  /\ today < MaxDay
  /\ today' = today + 1
  /\ UNCHANGED <<daily_metrics, sync_status, response, observed, input, output, poll, syncs>>

\* The tables are empty after the schema has been created (CREATE TABLE IF
\* NOT EXISTS in lib/db/index.ts inserts no row).
Init ==
  /\ today \in Days
  /\ daily_metrics = <<>>
  /\ sync_status = <<>>
  /\ response = NoResponse
  /\ observed = Nothing
  /\ input = None
  /\ output = None
  /\ poll = NoPoll
  /\ syncs = NoSyncs

Next ==
  \/ AdminSync
  \/ DailySync
  \/ UpdatePricesBatch
  \/ UpdatePricesCsv
  \/ Clear
  \/ GetMetrics
  \/ GetSyncStatus
  \/ GetInitStatus
  \/ InitDatabase
  \/ Deliver
  \/ Tick

Spec == Init /\ [][Next]_vars

\* ------------------------------------ syncs that are given no range
\* The two sync triggers called without a range and without force, one
\* request after the other, as the days pass.
AutomaticAdminSync == AdminSyncWith({NoBody})

AutomaticNext == AutomaticAdminSync \/ DailySync \/ Deliver \/ Tick

AutomaticSpec == Init /\ [][AutomaticNext]_vars


\* ------------------------------------- the Price Resolver on its own
\* fillMissingPrices called on any ascending list of up to MaxDates + 1
\* dates, any map of known prices and any positive fallback.
MaxDates == 3
ResolverDays == 0..MaxDates
KnownPrices == {0, 200, 500}
Fallbacks == {350, 400}

Ascending(S) ==
  CHOOSE seq \in [1..Cardinality(S) -> S] :
    \A i, j \in 1..Cardinality(S) : i < j => seq[i] < seq[j]

ResolverInputs ==
  [dates : {Ascending(S) : S \in SUBSET ResolverDays},
   priceMap : UNION {[S -> KnownPrices] : S \in SUBSET ResolverDays},
   fallbackPrice : Fallbacks]

ResolverInit ==
  /\ today = Epoch
  /\ daily_metrics = <<>>
  /\ sync_status = <<>>
  /\ response = NoResponse
  /\ observed = Nothing
  /\ input \in ResolverInputs
  /\ output = None
  /\ poll = NoPoll
  /\ syncs = NoSyncs

Resolve ==
  /\ output = None
  /\ output' = Some(fillMissingPrices(input.dates, input.priceMap,
                                      input.fallbackPrice))
  /\ UNCHANGED <<today, daily_metrics, sync_status, response, observed, input,
               poll, syncs>>

ResolverSpec == ResolverInit /\ [][Resolve]_vars

\* ----------------------------------------- polling an analytics query
\* pollDuneResults(executionId) with its default maxAttempts.  It is called
\* only after executeDuneQuery has returned, which needs DUNE_API_KEY set,
\* so the loop is always entered.  Every pass issues one request; the
\* request throws (fetch or the decoding of the body rejects), or answers
\* non-2xx, or with the state of the query.
MaxAttempts == 60
PollAnswers == {"threw", "http", "QUERY_STATE_COMPLETED", "QUERY_STATE_FAILED",
                "QUERY_STATE_EXECUTING"}

\* A loop condition that lets one more pass through.
budgetLeft_OffByOne(attempt, maxAttempts) == attempt <= maxAttempts

\* for (let attempt = 0; attempt < maxAttempts; attempt++)
budgetLeft(attempt, maxAttempts) == attempt < maxAttempts

\* One pass of the loop on the answer the request got.
pollPass(p, answer) ==
  IF answer = "threw"
  THEN [p EXCEPT !.polls = @ + 1, !.outcome = "threw"]
  ELSE IF answer = "http"
  THEN [p EXCEPT !.polls = @ + 1, !.outcome = "Dune API results failed"]
  ELSE IF answer = "QUERY_STATE_COMPLETED"
  THEN [p EXCEPT !.polls = @ + 1, !.outcome = "returned"]
  ELSE IF answer = "QUERY_STATE_FAILED"
  THEN [p EXCEPT !.polls = @ + 1, !.outcome = "Dune query execution failed"]
  ELSE [p EXCEPT !.polls = @ + 1, !.attempt = @ + 1]

PollInit ==
  /\ today = Epoch
  /\ daily_metrics = <<>>
  /\ sync_status = <<>>
  /\ response = NoResponse
  /\ observed = Nothing
  /\ input = None
  /\ output = None
  /\ poll = [attempt |-> 0, polls |-> 0, outcome |-> "polling"]
  /\ syncs = NoSyncs

PollOnce ==
  /\ poll.outcome = "polling"
  /\ budgetLeft(poll.attempt, MaxAttempts)
  /\ \E answer \in PollAnswers : poll' = pollPass(poll, answer)
  /\ UNCHANGED <<today, daily_metrics, sync_status, response, observed,
                 input, output, syncs>>

PollTimeout ==
  /\ poll.outcome = "polling"
  /\ ~budgetLeft(poll.attempt, MaxAttempts)
  /\ poll' = [poll EXCEPT !.outcome = "Dune query timeout"]
  /\ UNCHANGED <<today, daily_metrics, sync_status, response, observed,
                 input, output, syncs>>

PollNext == PollOnce \/ PollTimeout

\* Every request settles (the HTTP client times a silent server out) and
\* the 2 s timer fires, so the loop keeps taking passes while it can.
PollSpec == PollInit /\ [][PollNext]_vars /\ WF_vars(PollNext)

\* --------------------------------------- two syncs running side by side
\* Handler 1 is POST /api/admin/sync, handler 2 GET /api/cron/daily-sync
\* (authorized).  Nothing excludes one from the other: each await of a
\* handler is a point where the other may run.  A handler reads the last
\* status entry, calls the analytics and price sources, upserts its dates
\* one by one and appends its status entry.  Storage answers every call.
Handlers == {1, 2}

NotStarted == [pc |-> "start", range |-> <<0, 0>>, records |-> <<>>,
               error |-> "", next |-> 0, overlapped |-> FALSE]

\* The records a handler builds before its upsert loop.
builtRecords(fromDate, toDate, dune, cur, hist) ==
  LET lzMetrics == fetchLayerZeroDailyMetricsFromDune(dune.rows)
      currentPrice == getCurrentZROPrice(cur)
      historicalPrices == getHistoricalZROPrices(hist)
      dates == dateArray(fromDate, toDate)
      filledPrices == fillMissingPrices(dates, historicalPrices, currentPrice)
  IN  [i \in 1..Len(dates) |->
         buildMetric(dates[i], lzMetrics, filledPrices, currentPrice)]

ConcurrentInit ==
  /\ today \in Days
  /\ daily_metrics = <<>>
  /\ sync_status = <<>>
  /\ response = NoResponse
  /\ observed = Nothing
  /\ input = None
  /\ output = None
  /\ poll = NoPoll
  /\ syncs = [p \in Handlers |-> NotStarted]

Untouched == UNCHANGED <<today, response, observed, input, output, poll>>

\* From the read of the last status entry to the answers of the sources.
Begin(p) ==
  /\ syncs[p].pc = "start"
  /\ \E body \in IF p = 1 THEN Bodies ELSE {NoBody} :
       LET range == IF p = 1 THEN adminRange(body, sync_status, today)
                             ELSE cronRange(sync_status, today)
       IN  IF p = 2 /\ range[1] > range[2]
           THEN syncs' = [syncs EXCEPT ![p].pc = "done", ![p].range = range]
           ELSE \E met \in {e \in Encounters(range[1], range[2]) :
                              e.fault = NoFault} :
                  syncs' = [syncs EXCEPT
                    ![p].range = range,
                    ![p].pc = IF met.dune.ok THEN "upsert" ELSE "failed",
                    ![p].error = met.dune.error,
                    ![p].records =
                      IF met.dune.ok
                      THEN builtRecords(range[1], range[2],
                                        met.dune, met.cur, met.hist)
                      ELSE <<>>]
  /\ UNCHANGED <<daily_metrics, sync_status>>
  /\ Untouched

\* One pass of the upsert loop.
UpsertNext(p) ==
  /\ syncs[p].pc = "upsert"
  /\ syncs[p].next < Len(syncs[p].records)
  /\ daily_metrics' =
       upsertDailyMetric(daily_metrics, syncs[p].records[syncs[p].next + 1])
  /\ syncs' = [syncs EXCEPT
       ![p].next = @ + 1,
       ![p].overlapped =
         @ \/ \E q \in Handlers \ {p} :
                /\ syncs[q].pc = "upsert"
                /\ 0 < syncs[q].next
                /\ syncs[q].next < Len(syncs[q].records)]
  /\ UNCHANGED sync_status
  /\ Untouched

LogSuccess(p) ==
  /\ syncs[p].pc = "upsert"
  /\ syncs[p].next = Len(syncs[p].records)
  /\ sync_status' =
       insertSyncStatus(sync_status,
                        successEntry(syncs[p].range[2], syncs[p].next))
  /\ syncs' = [syncs EXCEPT ![p].pc = "done"]
  /\ UNCHANGED daily_metrics
  /\ Untouched

LogError(p) ==
  /\ syncs[p].pc = "failed"
  /\ sync_status' =
       insertSyncStatus(sync_status, errorEntry(today, syncs[p].error))
  /\ syncs' = [syncs EXCEPT ![p].pc = "done"]
  /\ UNCHANGED daily_metrics
  /\ Untouched

ConcurrentNext ==
  \E p \in Handlers :
    Begin(p) \/ UpsertNext(p) \/ LogSuccess(p) \/ LogError(p)

ConcurrentSpec == ConcurrentInit /\ [][ConcurrentNext]_vars

\* ------------------------------------------------- the burn arithmetic
\* A JavaScript number is kept exact: a finite non-negative rational
\* num/den, or Infinity, or NaN.
Finite(n, d) == [kind |-> "finite", num |-> Rat(n, d)[1], den |-> Rat(n, d)[2]]
Infinity == [kind |-> "Infinity", num |-> 0, den |-> 1]
NaN == [kind |-> "NaN", num |-> 0, den |-> 1]

\* a / b for a finite divisor b >= 0
jsDivide(a, b) ==
  IF a.kind = "NaN" THEN NaN
  ELSE IF b.num = 0
       THEN IF a.kind = "finite" /\ a.num = 0 THEN NaN ELSE Infinity
  ELSE IF a.kind = "Infinity" THEN Infinity
  ELSE Finite(a.num * b.den, a.den * b.num)

\* a + b
jsAdd(a, b) ==
  IF a.kind = "NaN" \/ b.kind = "NaN" THEN NaN
  ELSE IF a.kind = "Infinity" \/ b.kind = "Infinity" THEN Infinity
  ELSE Finite(a.num * b.den + b.num * a.den, a.den * b.den)

calculateDailyBurn(totalFeeUSD, zroPrice) ==
  jsDivide(Finite(totalFeeUSD, 1), Finite(zroPrice, 1))

RECURSIVE reduceBurn(_, _)
reduceBurn(metrics, n) ==
  IF n = 0 THEN Finite(0, 1)
  ELSE jsAdd(reduceBurn(metrics, n - 1),
             calculateDailyBurn(metrics[n].totalFeeUSD, metrics[n].zroPrice))

\* A total that prices every day at the price of the first record.
calculateTotalBurn_FirstPrice(metrics) ==
  IF Len(metrics) = 0 THEN Finite(0, 1)
  ELSE reduceBurn([i \in 1..Len(metrics) |->
                     [metrics[i] EXCEPT !.zroPrice = metrics[1].zroPrice]],
                  Len(metrics))

calculateTotalBurn(metrics) == reduceBurn(metrics, Len(metrics))

RECURSIVE reduceUSD(_, _)
reduceUSD(metrics, n) ==
  IF n = 0 THEN Finite(0, 1)
  ELSE jsAdd(reduceUSD(metrics, n - 1), Finite(metrics[n].totalFeeUSD, 1))

calculateTotalUSDValue(metrics) == reduceUSD(metrics, Len(metrics))

\* The three functions called on any fee and price and on any list of up
\* to MaxRecords records.
MaxRecords == 2
FeeValues == {0, 500, 1000}
PriceValues == {0, 2, 3}
BurnRecords == [totalFeeUSD : FeeValues, zroPrice : PriceValues]
BurnInputs ==
  [totalFeeUSD : FeeValues, zroPrice : PriceValues,
   metrics : UNION {[1..n -> BurnRecords] : n \in 0..MaxRecords}]
NoBurn == [dailyBurn |-> None, totalBurn |-> None, totalUSDValue |-> None]

BurnInit ==
  /\ today = Epoch
  /\ daily_metrics = <<>>
  /\ sync_status = <<>>
  /\ response = NoResponse
  /\ observed = Nothing
  /\ input \in BurnInputs
  /\ output = NoBurn
  /\ poll = NoPoll
  /\ syncs = NoSyncs

BurnFrame ==
  UNCHANGED <<today, daily_metrics, sync_status, response, observed, input,
              poll, syncs>>

CallDailyBurn ==
  /\ output.dailyBurn = None
  /\ output' = [output EXCEPT !.dailyBurn =
                  Some(calculateDailyBurn(input.totalFeeUSD, input.zroPrice))]
  /\ BurnFrame

CallTotalBurn ==
  /\ output.totalBurn = None
  /\ output' = [output EXCEPT !.totalBurn = Some(calculateTotalBurn(input.metrics))]
  /\ BurnFrame

CallTotalUSDValue ==
  /\ output.totalUSDValue = None
  /\ output' = [output EXCEPT !.totalUSDValue =
                  Some(calculateTotalUSDValue(input.metrics))]
  /\ BurnFrame

BurnNext == CallDailyBurn \/ CallTotalBurn \/ CallTotalUSDValue

BurnSpec == BurnInit /\ [][BurnNext]_vars

\* ------------------------------------------------------- the forecast
\* The numbers of this part are exact as above; a slope may be negative
\* (num < 0).
RECURSIVE sumOver(_, _)
sumOver(f, n) == IF n = 0 THEN 0 ELSE sumOver(f, n - 1) + f[n]

\* a - b for operands that are finite or NaN
jsSubtract(a, b) ==
  IF a.kind = "NaN" \/ b.kind = "NaN" THEN NaN
  ELSE Finite(a.num * b.den - b.num * a.den, a.den * b.den)

\* a * k for a whole number k >= 0
jsTimes(a, k) ==
  IF a.kind = "NaN" THEN NaN
  ELSE IF a.kind = "Infinity" THEN (IF k = 0 THEN NaN ELSE Infinity)
  ELSE Finite(a.num * k, a.den)

\* metrics.map((day, index) => [index, day.messageCount]): the i-th record
\* of the window has x = i - 1.
prepareRegressionData(metrics) ==
  [i \in 1..Len(metrics) |-> <<i - 1, metrics[i].messageCount>>]

\* linearRegression of simple-statistics: the least-squares line through
\* the points; one point gives slope 0, no point gives 0 / 0.
linearRegression(data) ==
  LET n == Len(data)
      sumX == sumOver([i \in 1..n |-> data[i][1]], n)
      sumY == sumOver([i \in 1..n |-> data[i][2]], n)
      sumXX == sumOver([i \in 1..n |-> data[i][1] * data[i][1]], n)
      sumXY == sumOver([i \in 1..n |-> data[i][1] * data[i][2]], n)
      m == jsDivide(Finite(n * sumXY - sumX * sumY, 1),
                    Finite(n * sumXX - sumX * sumX, 1))
  IN  IF n = 1
      THEN [m |-> Finite(0, 1), b |-> Finite(data[1][2], 1)]
      ELSE [m |-> m,
            b |-> jsSubtract(jsDivide(Finite(sumY, 1), Finite(n, 1)),
                             jsDivide(jsTimes(m, sumX), Finite(n, 1)))]

calculateVolumeRegression(metrics) ==
  LET regression == linearRegression(prepareRegressionData(metrics))
  IN  [slope |-> regression.m, intercept |-> regression.b]

\* A classification that reads the sign of the slope the wrong way round.
getRegressionTrendInfo_Inverted(metrics) ==
  LET regression == calculateVolumeRegression(metrics)
      n == Len(metrics)
      currentAvg ==
        jsDivide(Finite(sumOver([i \in 1..n |-> metrics[i].messageCount], n), 1),
                 Finite(n, 1))
  IN  [slope |-> regression.slope,
       percentChangePerDay |-> jsTimes(jsDivide(regression.slope, currentAvg), 100),
       trend |-> IF regression.slope.kind = "finite" /\ regression.slope.num < 0
                 THEN "increasing"
                 ELSE IF regression.slope.kind = "finite" /\ regression.slope.num > 0
                      THEN "decreasing"
                      ELSE "stable"]

\* slope > 0 and slope < 0 are both false of NaN.
getRegressionTrendInfo(metrics) ==
  LET regression == calculateVolumeRegression(metrics)
      n == Len(metrics)
      currentAvg ==
        jsDivide(Finite(sumOver([i \in 1..n |-> metrics[i].messageCount], n), 1),
                 Finite(n, 1))
  IN  [slope |-> regression.slope,
       percentChangePerDay |-> jsTimes(jsDivide(regression.slope, currentAvg), 100),
       trend |-> IF regression.slope.kind = "finite" /\ regression.slope.num > 0
                 THEN "increasing"
                 ELSE IF regression.slope.kind = "finite" /\ regression.slope.num < 0
                      THEN "decreasing"
                      ELSE "stable"]

calculateAverageDailyTotalFee(metrics) ==
  jsDivide(reduceUSD(metrics, Len(metrics)), Finite(Len(metrics), 1))

calculateAverageZROPrice(metrics) ==
  jsDivide(Finite(sumOver([i \in 1..Len(metrics) |-> metrics[i].zroPrice],
                          Len(metrics)), 1),
           Finite(Len(metrics), 1))

\* avgZROPrice || currentZROPrice: NaN and 0 are falsy.
predictivePrice(metrics, currentZROPrice) ==
  LET avgZROPrice == calculateAverageZROPrice(metrics)
  IN  IF avgZROPrice.kind = "NaN" \/ (avgZROPrice.kind = "finite" /\ avgZROPrice.num = 0)
      THEN Finite(currentZROPrice, 1)
      ELSE avgZROPrice

RECURSIVE reduceSum(_, _)
reduceSum(numbers, n) ==
  IF n = 0 THEN Finite(0, 1) ELSE jsAdd(reduceSum(numbers, n - 1), numbers[n])

\* A forecast that always divides by the current price.
predictFutureBurn_CurrentPrice(historicalMetrics, daysAhead, currentZROPrice) ==
  LET avgDailyTotalFee == calculateAverageDailyTotalFee(historicalMetrics)
      price == Finite(currentZROPrice, 1)
      dailyBurn == [i \in 1..daysAhead |-> jsDivide(avgDailyTotalFee, price)]
  IN  [dailyBurn |-> dailyBurn,
       totalBurn |-> reduceSum(dailyBurn, daysAhead),
       totalUSDValue |-> jsTimes(avgDailyTotalFee, daysAhead),
       avgZROPrice |-> price]

\* calculateDailyBurn(avgDailyTotalFee, predictivePrice) is their quotient.
predictFutureBurn(historicalMetrics, daysAhead, currentZROPrice) ==
  LET avgDailyTotalFee == calculateAverageDailyTotalFee(historicalMetrics)
      price == predictivePrice(historicalMetrics, currentZROPrice)
      dailyBurn == [i \in 1..daysAhead |-> jsDivide(avgDailyTotalFee, price)]
  IN  [dailyBurn |-> dailyBurn,
       totalBurn |-> reduceSum(dailyBurn, daysAhead),
       totalUSDValue |-> jsTimes(avgDailyTotalFee, daysAhead),
       avgZROPrice |-> price]

\* The two functions called on any window of up to MaxWindow records, for
\* up to MaxDaysAhead days.
MaxWindow == 3
MaxDaysAhead == 2
CountValues == {0, 100, 300}
WindowFees == {0, 500}
WindowPrices == {0, 2}
CurrentPrices == {0, 3}
WindowRecords ==
  [messageCount : CountValues, totalFeeUSD : WindowFees, zroPrice : WindowPrices]
ForecastInputs ==
  [metrics : UNION {[1..n -> WindowRecords] : n \in 0..MaxWindow},
   daysAhead : 0..MaxDaysAhead,
   currentZROPrice : CurrentPrices]
NoForecast == [trendInfo |-> None, futureBurn |-> None]

ForecastInit ==
  /\ today = Epoch
  /\ daily_metrics = <<>>
  /\ sync_status = <<>>
  /\ response = NoResponse
  /\ observed = Nothing
  /\ input \in ForecastInputs
  /\ output = NoForecast
  /\ poll = NoPoll
  /\ syncs = NoSyncs

CallTrendInfo ==
  /\ output.trendInfo = None
  /\ output' = [output EXCEPT !.trendInfo =
                  Some(getRegressionTrendInfo(input.metrics))]
  /\ BurnFrame

CallFutureBurn ==
  /\ output.futureBurn = None
  /\ output' = [output EXCEPT !.futureBurn =
                  Some(predictFutureBurn(input.metrics, input.daysAhead,
                                         input.currentZROPrice))]
  /\ BurnFrame

ForecastNext == CallTrendInfo \/ CallFutureBurn

ForecastSpec == ForecastInit /\ [][ForecastNext]_vars

\* ------------------------------ the historical price call on its own
\* getHistoricalZROPrices on any answer of up to MaxSamples samples, in any
\* order, several of them within one day.
MaxSamples == 3
SampleDays == {0, 1}
SampleSeconds == {0, 3600, 7200}
DayPrices == {200, 500}
DaySamples == [day : SampleDays, sec : SampleSeconds, price : DayPrices]
SampleAnswers ==
  {[called |-> TRUE, ok |-> FALSE, prices |-> <<>>]}
    \cup {[called |-> TRUE, ok |-> TRUE, prices |-> x] :
            x \in UNION {[1..n -> DaySamples] : n \in 0..MaxSamples}}

SamplesInit ==
  /\ today = Epoch
  /\ daily_metrics = <<>>
  /\ sync_status = <<>>
  /\ response = NoResponse
  /\ observed = Nothing
  /\ input \in SampleAnswers
  /\ output = None
  /\ poll = NoPoll
  /\ syncs = NoSyncs

CallHistoricalPrices ==
  /\ output = None
  /\ output' = Some(getHistoricalZROPrices(input))
  /\ BurnFrame

SamplesSpec == SamplesInit /\ [][CallHistoricalPrices]_vars

\* ===================================================================
\* Properties
\* ===================================================================
Syncs == {"sync", "cron"}

\* A step in which a sync handler (admin or scheduled) handles a request.
SyncStep == Idle /\ observed'.op \in Syncs

\* log2 is log1 with exactly one entry appended.
AppendedOne(log1, log2) ==
  /\ Len(log2) = Len(log1) + 1
  /\ SubSeq(log2, 1, Len(log1)) = log1

ErrorEntryAppended ==
  /\ AppendedOne(sync_status, sync_status')
  /\ sync_status'[Len(sync_status')].status = "error"
  /\ sync_status'[Len(sync_status')].error_message # None
  /\ sync_status'[Len(sync_status')].error_message # Some("")

AnalyticsFailed == observed'.dune.called /\ ~observed'.dune.ok

\* C1 as stated: when the analytics call of a sync throws, the sync answers
\* with a failure, an error entry with a non-empty message is appended to
\* the status log, and no daily record is written or changed.
C1_ErrorAlwaysLogged ==
  [][(SyncStep /\ AnalyticsFailed)
       => /\ response'.status = 500
          /\ ~response'.success
          /\ daily_metrics' = daily_metrics
          /\ ErrorEntryAppended]_vars

\* C1 amended: when the analytics call of a sync throws, the sync answers
\* with a failure and no daily record is written or changed; an error entry
\* with a non-empty message is appended to the status log unless the write
\* of that entry fails too, in which case the log is left as it was.
C1_ErrorLoggedUnlessLogWriteFails ==
  [][(SyncStep /\ AnalyticsFailed)
       => /\ response'.status = 500
          /\ ~response'.success
          /\ daily_metrics' = daily_metrics
          /\ IF observed'.logFault
             THEN sync_status' = sync_status
             ELSE ErrorEntryAppended]_vars

C1_Witness ==
  /\ observed.op \in Syncs
  /\ observed.dune.called /\ ~observed.dune.ok
  /\ ~observed.logFault
  /\ response.status = 500
  /\ Len(sync_status) > 0
  /\ sync_status[Len(sync_status)].status = "error"
  /\ sync_status[Len(sync_status)].error_message = Some(observed.dune.error)

\* C2 as stated: every sync trigger whose effective start date is after its
\* effective end date writes zero records, makes no external fetch and no
\* upsert, and leaves the status log and the record table unchanged.
C2_NoOpRangeTouchesNothing ==
  [][(/\ SyncStep
      /\ observed'.range # None
      /\ observed'.range[1][1] > observed'.range[1][2])
       => /\ response'.recordsInserted = 0
          /\ ~observed'.dune.called
          /\ sync_status' = sync_status
          /\ daily_metrics' = daily_metrics]_vars

\* C3: a successful sync over an explicit range, run once more over the
\* same range with the same external answers, leaves the record table as
\* the first run left it: the same dates, one row each, the same values.
C3_SecondRunChangesNothing ==
  [][(/\ SyncStep
      /\ adminExplicit(observed'.body)
      /\ response'.status = 200)
       => LET range == observed'.range[1]
              again == syncRange(daily_metrics', sync_status', today,
                                 range[1], range[2], observed'.dune,
                                 observed'.cur, observed'.hist, NoFault)
          IN  /\ again.response.status = 200
              /\ DOMAIN again.table = DOMAIN daily_metrics'
              /\ again.table = daily_metrics']_vars

C3_Witness ==
  /\ observed.op = "sync"
  /\ adminExplicit(observed.body)
  /\ response.status = 200
  /\ response.recordsInserted > 0
  /\ Len(sync_status) = 2
  /\ sync_status[1] = sync_status[2]
  /\ observed.dune.rows # <<>>

\* The position of the last success entry of the log, 0 if there is none.
lastSuccess(log) ==
  IF \E i \in 1..Len(log) : log[i].status = "success"
  THEN CHOOSE i \in 1..Len(log) :
         /\ log[i].status = "success"
         /\ \A j \in (i + 1)..Len(log) : log[j].status # "success"
  ELSE 0

\* C4 as stated: without an explicit range and without force, a sync starts
\* the day after the syncDate of the most recent successful sync, or at the
\* program epoch when no sync has succeeded; error entries do not count.
C4_StartsAfterLastSuccess ==
  [][(/\ SyncStep
      /\ observed'.range # None
      /\ observed'.body = NoBody)
       => observed'.range[1][1] =
            IF lastSuccess(sync_status) = 0 THEN Epoch
            ELSE sync_status[lastSuccess(sync_status)].last_sync_date + 1]_vars

Completed == observed.op \in Syncs /\ response.status = 200 /\ ~response.skipped

\* C5: after a sync over [from, to] has completed successfully, every date
\* of [from, to] has its record (the table holds one row per date), with a
\* price above zero; a date without analytics data has messageCount 0 and
\* totalFeeUSD 0.
C5_DenseRange ==
  Completed =>
    \A d \in observed.range[1][1]..observed.range[1][2] :
      /\ d \in DOMAIN daily_metrics
      /\ daily_metrics[d].zro_price > 0
      /\ d \notin DOMAIN observed.dune.rows
           => /\ daily_metrics[d].message_count = 0
              /\ daily_metrics[d].total_fee_usd = RatZero

C5_Witness ==
  /\ Completed
  /\ observed.range[1][2] > observed.range[1][1]
  /\ observed.dune.rows # <<>>
  /\ \E d \in observed.range[1][1]..observed.range[1][2] :
       /\ d \notin DOMAIN observed.dune.rows
       /\ daily_metrics[d].message_count = 0

\* C6: a sync that completes successfully appends exactly one entry to the
\* status log: outcome success, syncDate the effective end date, and
\* recordsWritten the number of dates of [from, to].
C6_OneSuccessEntry ==
  [][(SyncStep /\ response'.status = 200 /\ ~response'.skipped)
       => LET range == observed'.range[1]
              count == IF range[2] >= range[1] THEN range[2] - range[1] + 1 ELSE 0
          IN  /\ AppendedOne(sync_status, sync_status')
              /\ sync_status'[Len(sync_status')] =
                   [last_sync_date |-> range[2], status |-> "success",
                    messages_synced |-> count, error_message |-> None]
              /\ response'.recordsInserted = count
              /\ \A d \in range[1]..range[2] : d \in DOMAIN daily_metrics']_vars

C6_Witness ==
  /\ Completed
  /\ observed.range[1][2] > observed.range[1][1]
  /\ observed.range[1][2] # today
  /\ sync_status[Len(sync_status)].last_sync_date = observed.range[1][2]
  /\ sync_status[Len(sync_status)].messages_synced = 2

\* C7: a sync given no range starts at the program epoch when the status
\* log is empty or force is set, whatever the log holds; otherwise it starts
\* the day after the syncDate of the last entry of the log.
C7_StartOfAutomaticRange ==
  [][(/\ SyncStep
      /\ observed'.range # None
      /\ observed'.body.startDate = None
      /\ observed'.body.endDate = None)
       => observed'.range[1][1] =
            IF Len(sync_status) = 0 \/ observed'.body.force THEN Epoch
            ELSE sync_status[Len(sync_status)].last_sync_date + 1]_vars

C7_Witness ==
  /\ observed.op = "sync"
  /\ observed.body.startDate = None /\ observed.body.endDate = None
  /\ observed.body.force
  /\ observed.range = Some(<<Epoch, today>>)
  /\ Len(sync_status) = 2
  /\ sync_status[1].last_sync_date >= Epoch
  /\ response.status = 200

\* C8 as stated: the admin sync uses every bound the caller supplies as it
\* is, also when only one of the two is supplied, and puts today in place of
\* the end date only when none was supplied.
C8_SuppliedBoundsVerbatim ==
  [][(Idle /\ observed'.op = "sync" /\ observed'.range # None)
       => /\ observed'.body.startDate # None
               => observed'.range[1][1] = observed'.body.startDate[1]
          /\ observed'.body.endDate # None
               => observed'.range[1][2] = observed'.body.endDate[1]
          /\ observed'.body.endDate = None
               => observed'.range[1][2] = today]_vars

\* C9 as stated: every stored daily record has a price above zero.
C9_PriceNeverZero ==
  \A d \in DOMAIN daily_metrics : daily_metrics[d].zro_price > 0


DatesOf(dates) == {dates[i] : i \in 1..Len(dates)}

\* C10 as stated: for any ascending list of dates, any map of known prices
\* and any positive fallback, fillMissingPrices returns a map with exactly
\* one entry for every input date, and every value is above zero.
C10_DenseAndPositive ==
  output # None
    => /\ DOMAIN output[1] = DatesOf(input.dates)
       /\ Cardinality(DOMAIN output[1]) = Len(input.dates)
       /\ \A d \in DOMAIN output[1] : output[1][d] > 0

\* C10 amended: for any ascending list of dates, any map of known prices
\* and any positive fallback, fillMissingPrices returns a map with exactly
\* one entry for every input date; every value is above zero provided the
\* known price of every input date is above zero (a known price is copied
\* as it is).
C10_DenseAndPositiveForPositivePrices ==
  output # None
    => /\ DOMAIN output[1] = DatesOf(input.dates)
       /\ Cardinality(DOMAIN output[1]) = Len(input.dates)
       /\ (\A d \in DatesOf(input.dates) \cap DOMAIN input.priceMap :
             input.priceMap[d] > 0)
            => \A d \in DOMAIN output[1] : output[1][d] > 0

C10_Witness ==
  /\ output # None
  /\ Len(input.dates) = 4
  /\ \A d \in DatesOf(input.dates) \cap DOMAIN input.priceMap :
       input.priceMap[d] > 0
  /\ input.dates[1] \notin DOMAIN input.priceMap
  /\ input.dates[2] \in DOMAIN input.priceMap
  /\ input.dates[4] \notin DOMAIN input.priceMap
  /\ \A d \in DOMAIN output[1] : output[1][d] > 0

KnownIndices(dates, priceMap) ==
  {k \in 1..Len(dates) : dates[k] \in DOMAIN priceMap}

Max(S) == CHOOSE x \in S : \A y \in S : y <= x
Min(S) == CHOOSE x \in S : \A y \in S : x <= y

\* The price the step function gives the i-th date.
StepPrice(dates, priceMap, fallbackPrice, i) ==
  LET known == KnownIndices(dates, priceMap)
  IN  IF i \in known THEN priceMap[dates[i]]
      ELSE IF known = {} THEN fallbackPrice
      ELSE IF i < Min(known) THEN priceMap[dates[Min(known)]]
      ELSE priceMap[dates[Max({k \in known : k < i})]]

\* C11: fillMissingPrices is a step function over the ascending dates: a
\* date with a known price gets it, a date before the first known one gets
\* the first known price, any other date gets the price of the nearest
\* earlier known date, and the fallback is used only (and for every date)
\* when no input date has a known price.
C11_StepFunction ==
  output # None
    => \A i \in 1..Len(input.dates) :
         /\ input.dates[i] \in DOMAIN output[1]
         /\ output[1][input.dates[i]] =
              StepPrice(input.dates, input.priceMap, input.fallbackPrice, i)

C11_Witness ==
  /\ output # None
  /\ Len(input.dates) = 4
  /\ KnownIndices(input.dates, input.priceMap) = {2, 3}
  /\ input.priceMap[input.dates[2]] = 200
  /\ input.priceMap[input.dates[3]] = 500
  /\ output[1][input.dates[1]] = 200
  /\ output[1][input.dates[4]] = 500

\* messageCount x avgFee of the analytics rows for a date, from the raw row:
\* avgFee is (executor fees + DVN fees) / message count.
ProductOfAnalytics(rows, d) ==
  IF d \in DOMAIN rows /\ rows[d].message_count > 0
  THEN Rat(rows[d].message_count *
             (rows[d].total_executor_fees + rows[d].total_dvn_fees),
           rows[d].message_count)
  ELSE RatZero

RowWritten(d) ==
  /\ d \in DOMAIN daily_metrics'
  /\ d \in DOMAIN daily_metrics => daily_metrics'[d] # daily_metrics[d]

\* C12: for every date a sync writes, the stored total_fee_usd is the
\* message count multiplied by the average fee of the analytics row of that
\* date, and 0 when the analytics answer has no row for the date.
C12_TotalIsCountTimesAverage ==
  [][SyncStep /\ observed'.range # None
       => \A d \in RangeDays(observed'.range[1][1], observed'.range[1][2]) :
            (RowWritten(d) \/ (response'.status = 200 /\ d \in DOMAIN daily_metrics'))
              => /\ response'.status = 200 => d \in DOMAIN daily_metrics'
                 /\ daily_metrics'[d].total_fee_usd =
                      ProductOfAnalytics(observed'.dune.rows, d)]_vars

C12_Witness ==
  /\ Completed
  /\ \E d, e \in DOMAIN daily_metrics :
       /\ d \in DOMAIN observed.dune.rows
       /\ daily_metrics[d].message_count = 100
       /\ daily_metrics[d].avg_gas_paid = <<250, 1>>
       /\ daily_metrics[d].total_fee_usd = <<25000, 1>>
       /\ e \notin DOMAIN observed.dune.rows
       /\ e \in RangeDays(observed.range[1][1], observed.range[1][2])
       /\ daily_metrics[e].total_fee_usd = RatZero

PriceSourceFailed ==
  /\ observed'.dune.called /\ observed'.dune.ok
  /\ observed'.fault = "none"
  /\ \/ observed'.cur.called /\ ~observed'.cur.ok
     \/ observed'.hist.called /\ ~observed'.hist.ok

\* The current price a sync works with: the figure of the price source, or
\* the default when the call failed or gave no figure.
CurrentPriceUsed(cur) == IF cur.ok /\ cur.usd # 0 THEN cur.usd ELSE DefaultPrice

\* C13: when the current-price call, the historical-price call or both fail
\* (and nothing else does), the sync still answers success, has a record for
\* every date of the range and appends one success entry and no error
\* entry; a failed current-price call counts as the default price, a failed
\* historical call as no known price, so that every date then carries the
\* fallback price.
C13_PriceFailureNeverAborts ==
  [][SyncStep /\ PriceSourceFailed
       => LET range == observed'.range[1]
              days == RangeDays(range[1], range[2])
          IN  /\ response'.status = 200 /\ response'.success
              /\ days \subseteq DOMAIN daily_metrics'
              /\ AppendedOne(sync_status, sync_status')
              /\ sync_status'[Len(sync_status')].status = "success"
              /\ ~observed'.hist.ok
                   => \A d \in days :
                        daily_metrics'[d].zro_price = CurrentPriceUsed(observed'.cur)
              /\ (~observed'.cur.ok /\ observed'.hist.prices = <<>>)
                   => \A d \in days : daily_metrics'[d].zro_price = DefaultPrice
              /\ ~observed'.cur.ok
                   => \A d \in days : daily_metrics'[d].zro_price > 0]_vars

C13_Witness ==
  /\ Completed
  /\ observed.cur.called /\ ~observed.cur.ok
  /\ observed.hist.called /\ ~observed.hist.ok
  /\ observed.range = Some(<<0, 1>>)
  /\ \A d \in {0, 1} : d \in DOMAIN daily_metrics /\ daily_metrics[d].zro_price = DefaultPrice
  /\ sync_status[Len(sync_status)].status = "success"

PollEnded == poll.outcome \notin {"none", "polling"}

\* C14 as stated: the poll loop issues at most maxAttempts (60) requests and
\* ends in one of four outcomes: the completed result is returned, or it
\* fails on a non-2xx response, on the failed query state, or with a
\* timeout once the attempts are used up.
C14_FourOutcomes ==
  /\ poll.polls <= MaxAttempts
  /\ PollEnded
       => poll.outcome \in {"returned", "Dune API results failed",
                            "Dune query execution failed", "Dune query timeout"}

\* C14 amended: polling always terminates; at most maxAttempts (60)
\* requests are issued; the loop ends in exactly one of five outcomes: the
\* completed result is returned, or it fails on a non-2xx response, on the
\* failed query state, with a timeout once the attempts are used up, or
\* because a request itself threw; and no request is issued after the loop
\* has ended.
C14_PollingTerminates ==
  /\ <>PollEnded
  /\ [](poll.polls <= MaxAttempts)
  /\ [](PollEnded
          => poll.outcome \in {"returned", "Dune API results failed",
                               "Dune query execution failed",
                               "Dune query timeout", "threw"})
  /\ [](poll.outcome = "Dune query timeout" => poll.polls = MaxAttempts)
  /\ [][PollEnded => poll' = poll]_vars

C14_Witness ==
  /\ poll.outcome = "Dune query timeout"
  /\ poll.polls = MaxAttempts

AllDone == syncs # NoSyncs /\ \A p \in Handlers : syncs[p].pc = "done"

RECURSIVE upsertRecords(_, _, _)
upsertRecords(table, records, n) ==
  IF n = 0 THEN table
  ELSE upsertDailyMetric(upsertRecords(table, records, n - 1), records[n])

\* The table after handler p has run alone and handler q after it, each
\* writing the records it built.
OneAfterTheOther(p, q) ==
  upsertRecords(upsertRecords(<<>>, syncs[p].records, Len(syncs[p].records)),
                syncs[q].records, Len(syncs[q].records))

\* The two handlers built the same record for every date both write.
SharedDatesAgree ==
  \A i \in 1..Len(syncs[1].records), j \in 1..Len(syncs[2].records) :
    syncs[1].records[i].date = syncs[2].records[j].date
      => syncs[1].records[i] = syncs[2].records[j]

RowsBuiltFor(d) ==
  UNION {{upsertDailyMetric(<<>>, syncs[p].records[i])[d] :
            i \in {k \in 1..Len(syncs[p].records) :
                     syncs[p].records[k].date = d}} : p \in Handlers}

\* C15 as stated: when two syncs over overlapping ranges have run with
\* their reads and upserts interleaved, the daily records are the same as
\* after running the two one after the other.
C15_InterleavingEqualsSequential ==
  AllDone => daily_metrics \in {OneAfterTheOther(1, 2), OneAfterTheOther(2, 1)}

\* C15 amended: when two syncs over overlapping ranges have run with their
\* reads and upserts interleaved, every stored record is a record one of
\* the two built for its date, and the daily records are the same as after
\* running the two one after the other provided both built the same record
\* for every date they share.
C15_InterleavingConvergesOnAgreement ==
  AllDone
    => /\ \A d \in DOMAIN daily_metrics : daily_metrics[d] \in RowsBuiltFor(d)
       /\ SharedDatesAgree
            => /\ daily_metrics = OneAfterTheOther(1, 2)
               /\ daily_metrics = OneAfterTheOther(2, 1)

C15_Witness ==
  /\ AllDone
  /\ SharedDatesAgree
  /\ syncs[1].overlapped /\ syncs[2].overlapped
  /\ Len(syncs[1].records) = 2 /\ Len(syncs[2].records) = 2
  /\ daily_metrics = OneAfterTheOther(1, 2)

IsPrefix(log1, log2) ==
  /\ Len(log1) <= Len(log2)
  /\ SubSeq(log2, 1, Len(log1)) = log1

\* C16 as stated: the sync status log is append-only: no operation updates
\* or removes an entry once it is stored.
C16_LogAppendOnly ==
  [][IsPrefix(sync_status, sync_status')]_vars

\* C16 amended: the sync status log is append-only except for the clear
\* operation, which removes every entry: no other operation updates or
\* removes a stored entry, and getLastSyncStatus returns the most recently
\* inserted entry still in the log, or none when the log is empty.
C16_LogAppendOnlyUntilCleared ==
  [][/\ \/ IsPrefix(sync_status, sync_status')
        \/ Idle /\ observed'.op = "clear" /\ sync_status' = <<>>
     /\ Len(sync_status') > Len(sync_status)
          => /\ AppendedOne(sync_status, sync_status')
             /\ getLastSyncStatus(sync_status') # None
             /\ getLastSyncStatus(sync_status')[1] = sync_status'[Len(sync_status')]
             /\ getLastSyncStatus(sync_status')[1].status =
                  (IF response'.status = 200 THEN "success" ELSE "error")
     /\ sync_status' = <<>> => getLastSyncStatus(sync_status') = None]_vars

C16_Witness ==
  /\ Len(sync_status) = 2
  /\ sync_status[1].status = "error"
  /\ sync_status[2].status = "success"
  /\ observed.op \in Syncs
  /\ getLastSyncStatus(sync_status) = Some(sync_status[2])

PriceUpdates == {"update-prices", "update-prices-batch"}
Reads == {"metrics", "sync-status", "init-status"}

RowChanged(d) ==
  \/ d \notin DOMAIN daily_metrics
  \/ daily_metrics'[d] # daily_metrics[d]

\* C17 as stated: a daily record is created or replaced only by the upsert
\* of a sync, never changed in part by another operation, and the read
\* path leaves storage as it is.
C17_RecordsChangeOnlyBySync ==
  [][/\ \A d \in DOMAIN daily_metrics' :
          RowChanged(d) => Idle /\ observed'.op \in Syncs
     /\ (Idle /\ observed'.op \in Reads)
          => UNCHANGED <<daily_metrics, sync_status>>]_vars

\* C17 amended: a daily record is created or replaced as a whole only by
\* the upsert of a sync; the one other change to a stored record is made by
\* the price-update operations, which overwrite the price of an existing
\* record and leave its other fields as they were; and the read path
\* (metrics, sync-status and init-status queries) leaves storage as it is.
C17_RecordsChangeBySyncOrPriceUpdate ==
  [][/\ \A d \in DOMAIN daily_metrics' :
          RowChanged(d)
            => /\ Idle
               /\ \/ observed'.op \in Syncs
                  \/ /\ observed'.op \in PriceUpdates
                     /\ d \in DOMAIN daily_metrics
                     /\ daily_metrics'[d] =
                          [daily_metrics[d] EXCEPT
                             !.zro_price = daily_metrics'[d].zro_price]
     /\ (Idle /\ observed'.op \in Reads)
          => UNCHANGED <<daily_metrics, sync_status>>]_vars

C17_Witness ==
  /\ observed.op = "update-prices-batch"
  /\ response.recordsUpdated = 2
  /\ DOMAIN daily_metrics = {0, 1}
  /\ daily_metrics[0].zro_price = 0
  /\ daily_metrics[0].message_count = 100
  /\ daily_metrics[0].total_fee_usd = <<25000, 1>>
  /\ daily_metrics[1].zro_price = 200

MetricsAnswered == observed.op = "metrics"
BothGiven == observed.body.startDate # None /\ observed.body.endDate # None

\* C18: the metrics endpoint answers an empty record table with 404 and
\* needsSync, an answer unlike that of a failure (500) and of a success
\* (200); with at least one record stored and both start and end given it
\* answers 200 with the records of the requested range in date order, which
\* may be none, unless a storage call fails (500).
C18_EmptyTableNeedsSync ==
  MetricsAnswered
    => /\ response.status \in {200, 400, 404, 500}
       /\ response.needsSync <=> response.status = 404
       /\ response.status = 404
            <=> BothGiven /\ observed.fault = "none" /\ ~hasData(daily_metrics)
       /\ response.status = 500 <=> BothGiven /\ observed.fault # "none"
       /\ (BothGiven /\ hasData(daily_metrics) /\ observed.fault = "none")
            => /\ response.status = 200
               /\ LET metrics == response.data[1].metrics
                      start == observed.body.startDate[1]
                      end == observed.body.endDate[1]
                  IN  /\ {metrics[i].date : i \in 1..Len(metrics)} =
                           {d \in DOMAIN daily_metrics : start <= d /\ d <= end}
                      /\ \A i \in 1..Len(metrics) :
                           /\ metrics[i].zroPrice = daily_metrics[metrics[i].date].zro_price
                           /\ metrics[i].messageCount =
                                daily_metrics[metrics[i].date].message_count
                           /\ metrics[i].totalFeeUSD =
                                daily_metrics[metrics[i].date].total_fee_usd
                           /\ \A j \in 1..Len(metrics) :
                                i < j => metrics[i].date < metrics[j].date

C18_EmptyRangeAnswered ==
  /\ MetricsAnswered
  /\ response.status = 200
  /\ DOMAIN daily_metrics = {0}
  /\ observed.body.startDate = Some(1)
  /\ observed.body.endDate = Some(1)
  /\ response.data[1].metrics = <<>>

C18_Witness ==
  /\ MetricsAnswered
  /\ response.status = 404
  /\ response.needsSync
  /\ daily_metrics = <<>>

\* C19 as stated: calculateDailyBurn returns 0 when the price is zero, and
\* totalFeeUSD / price when the price is positive.
C19_DefinedZeroPolicy ==
  output.dailyBurn # None
    => LET burn == output.dailyBurn[1]
       IN  IF input.zroPrice = 0
           THEN burn = Finite(0, 1)
           ELSE /\ burn.kind = "finite"
                /\ burn.num * input.zroPrice = burn.den * input.totalFeeUSD

RECURSIVE PriceProduct(_, _)
PriceProduct(metrics, n) ==
  IF n = 0 THEN 1 ELSE PriceProduct(metrics, n - 1) * metrics[n].zroPrice

\* The numerator of the sum of fee/price over the first n records, over
\* the product of their prices.
RECURSIVE BurnNumerator(_, _)
BurnNumerator(metrics, n) ==
  IF n = 0 THEN 0
  ELSE BurnNumerator(metrics, n - 1) * metrics[n].zroPrice
         + metrics[n].totalFeeUSD * PriceProduct(metrics, n - 1)

RECURSIVE FeeSum(_, _)
FeeSum(metrics, n) ==
  IF n = 0 THEN 0 ELSE FeeSum(metrics, n - 1) + metrics[n].totalFeeUSD

PositivePrices ==
  \A i \in 1..Len(input.metrics) : input.metrics[i].zroPrice > 0

\* C20: for records with positive prices calculateTotalBurn is the sum of
\* totalFeeUSD / price over the records and calculateTotalUSDValue the sum
\* of totalFeeUSD; both are 0 for no record.
C20_TotalsAreSums ==
  PositivePrices
    => /\ output.totalBurn # None
            => LET burn == output.totalBurn[1]
                   n == Len(input.metrics)
               IN  /\ burn.kind = "finite"
                   /\ burn.num * PriceProduct(input.metrics, n) =
                        burn.den * BurnNumerator(input.metrics, n)
                   /\ n = 0 => burn = Finite(0, 1)
       /\ output.totalUSDValue # None
            => /\ output.totalUSDValue[1] =
                    Finite(FeeSum(input.metrics, Len(input.metrics)), 1)
               /\ Len(input.metrics) = 0 => output.totalUSDValue[1] = Finite(0, 1)

C20_Witness ==
  /\ input.metrics = <<[totalFeeUSD |-> 1000, zroPrice |-> 2],
                       [totalFeeUSD |-> 500, zroPrice |-> 2]>>
  /\ output.totalBurn = Some(Finite(750, 1))
  /\ output.totalUSDValue = Some(Finite(1500, 1))

\* The message counts of the window rise (fall) from each record to the
\* next; they are all the same.
Rising(metrics) ==
  /\ Len(metrics) >= 2
  /\ \A i \in 1..(Len(metrics) - 1) :
       metrics[i].messageCount < metrics[i + 1].messageCount

Falling(metrics) ==
  /\ Len(metrics) >= 2
  /\ \A i \in 1..(Len(metrics) - 1) :
       metrics[i].messageCount > metrics[i + 1].messageCount

Level(metrics) ==
  /\ Len(metrics) >= 1
  /\ \A i \in 1..Len(metrics) : metrics[i].messageCount = metrics[1].messageCount

\* The line y = m x + b satisfies the normal equations of the least-squares
\* fit of the window: its residuals sum to zero, and so do the residuals
\* weighted by the day index.
IsLeastSquaresLine(metrics, m, b) ==
  LET n == Len(metrics)
      residual(i) ==
        metrics[i].messageCount * m.den * b.den
          - m.num * b.den * (i - 1) - b.num * m.den
  IN  /\ m.kind = "finite" /\ b.kind = "finite"
      /\ sumOver([i \in 1..n |-> residual(i)], n) = 0
      /\ sumOver([i \in 1..n |-> (i - 1) * residual(i)], n) = 0

\* C21: getRegressionTrendInfo reports the slope of the least-squares line
\* of messageCount against the day index and classifies the window by its
\* sign: rising message counts give slope > 0 and trend increasing, equal
\* message counts slope = 0 and trend stable, falling message counts
\* slope < 0 and trend decreasing.
C21_TrendFollowsSlopeSign ==
  output.trendInfo # None
    => LET info == output.trendInfo[1]
           regression == calculateVolumeRegression(input.metrics)
       IN  /\ Len(input.metrics) >= 2
                => /\ IsLeastSquaresLine(input.metrics, regression.slope,
                                         regression.intercept)
                   /\ info.slope = regression.slope
           /\ Rising(input.metrics)
                => /\ info.slope.kind = "finite" /\ info.slope.num > 0
                   /\ info.trend = "increasing"
           /\ Level(input.metrics)
                => /\ info.slope = Finite(0, 1)
                   /\ info.trend = "stable"
           /\ Falling(input.metrics)
                => /\ info.slope.kind = "finite" /\ info.slope.num < 0
                   /\ info.trend = "decreasing"

C21_Witness ==
  /\ Len(input.metrics) = 3
  /\ input.metrics[1].messageCount = 0
  /\ input.metrics[2].messageCount = 100
  /\ input.metrics[3].messageCount = 300
  /\ output.trendInfo # None
  /\ output.trendInfo[1].slope = Finite(150, 1)
  /\ output.trendInfo[1].trend = "increasing"

\* The sums of the fees and of the prices of the window of the call.
WindowFeeSum ==
  sumOver([i \in 1..Len(input.metrics) |-> input.metrics[i].totalFeeUSD],
          Len(input.metrics))

WindowPriceSum ==
  sumOver([i \in 1..Len(input.metrics) |-> input.metrics[i].zroPrice],
          Len(input.metrics))

\* The window of the call with every message count set to zero.
WithoutCounts ==
  [i \in 1..Len(input.metrics) |-> [input.metrics[i] EXCEPT !.messageCount = 0]]

C23_UnauthorizedRejected ==
  [][(/\ Idle
      /\ observed'.op = "cron"
      /\ observed'.auth.production
      /\ ~observed'.auth.bearer)
       => /\ response'.status = 401
          /\ observed'.range = None
          /\ ~observed'.dune.called
          /\ ~observed'.cur.called
          /\ ~observed'.hist.called
          /\ daily_metrics' = daily_metrics
          /\ sync_status' = sync_status]_vars

\* The samples of the answer that fall into day d.
SamplesOfDay(d) == {i \in 1..Len(input.prices) : input.prices[i].day = d}

\* C24 as stated: when the historical price call answers with several
\* samples of one calendar day, in any order, the price kept for that day
\* is the price of a sample with the latest timestamp of that day.
C24_LatestSampleKept ==
  (output # None /\ input.ok)
    => \A d \in SampleDays :
         SamplesOfDay(d) # {}
           => /\ d \in DOMAIN output[1]
              /\ \E i \in SamplesOfDay(d) :
                   /\ \A j \in SamplesOfDay(d) :
                        timestamp(input.prices[j]) <= timestamp(input.prices[i])
                   /\ output[1][d] = input.prices[i].price

\* The range a forced full resync (no range given, force set) works on.
ForcedResyncRange ==
  adminRange([startDate |-> None, endDate |-> None, force |-> TRUE],
             sync_status, today)

\* C25 as stated: initialization on an empty record table runs the sync over
\* the range of a forced full resync, from the program epoch through today,
\* and, when it succeeds, leaves a record for every date of that range; on
\* a table that holds data it answers 400 and triggers no sync.
C25_InitIsForcedResync ==
  [][(Idle /\ observed'.op = "init" /\ observed'.fault # "read")
       => IF hasData(daily_metrics)
          THEN /\ response'.status = 400
               /\ observed'.range = None
               /\ ~observed'.dune.called
               /\ UNCHANGED <<daily_metrics, sync_status>>
          ELSE /\ observed'.range # None
                    => /\ ForcedResyncRange = <<Epoch, today>>
                       /\ observed'.range[1] = ForcedResyncRange
               /\ response'.status = 200
                    => \A d \in RangeDays(Epoch, today) : d \in DOMAIN daily_metrics']_vars

\* A request to the clear operation has been answered with success.
Cleared == observed.op = "clear" /\ response.status = 200

\* C26: when the clear operation has completed successfully, the daily
\* record table and the sync status log are empty (the message table, which
\* no handler inserts into, is empty throughout); on these tables the
\* metrics endpoint answers a well-formed request with 404 and needsSync,
\* and a sync given no range starts at the program epoch.
C26_ClearLeavesNothing ==
  /\ [](Cleared
          => /\ daily_metrics = <<>>
             /\ sync_status = <<>>
             /\ ~hasData(daily_metrics)
             /\ getLastSyncStatus(sync_status) = None
             /\ adminRange(NoBody, sync_status, today)[1] = Epoch
             /\ cronRange(sync_status, today)[1] = Epoch)
  /\ [][(Idle /\ daily_metrics = <<>> /\ sync_status = <<>>)
          => /\ (/\ observed'.op = "metrics"
                 /\ observed'.body.startDate # None
                 /\ observed'.body.endDate # None
                 /\ observed'.fault = "none")
                  => /\ response'.status = 404
                     /\ response'.needsSync
             /\ (/\ observed'.op \in Syncs
                 /\ observed'.range # None
                 /\ observed'.body.startDate = None
                 /\ observed'.body.endDate = None)
                  => observed'.range[1][1] = Epoch]_vars

C26_Witness ==
  /\ Cleared
  /\ observed.fault = "none"
  /\ daily_metrics = <<>>
  /\ sync_status = <<>>

\* C27 as stated: after any sequence of syncs given no range and no force,
\* some of which may have failed, every date from the program epoch through
\* the syncDate of the most recent success entry has a record.
C27_NoGaps ==
  lastSuccess(sync_status) # 0
    => \A d \in Epoch..sync_status[lastSuccess(sync_status)].last_sync_date :
         d \in DOMAIN daily_metrics

\* C28 as stated: a sync that fails at any step, a storage write part-way
\* through the upsert loop included, has created or changed no daily record,
\* and the 0 records of its error entry is what it has written.
C28_AllOrNothing ==
  [][(SyncStep /\ response'.status = 500)
       => /\ daily_metrics' = daily_metrics
          /\ Len(sync_status') > Len(sync_status)
               => sync_status'[Len(sync_status')].messages_synced = 0]_vars

\* The row of date d is as the step found it.
RowKept(d) ==
  /\ d \in DOMAIN daily_metrics' <=> d \in DOMAIN daily_metrics
  /\ d \in DOMAIN daily_metrics => daily_metrics'[d] = daily_metrics[d]

\* The row of date d is the record the step built from the analytics rows.
RowUpserted(d) ==
  /\ d \in DOMAIN daily_metrics'
  /\ daily_metrics'[d].message_count =
       (IF d \in DOMAIN observed'.dune.rows
        THEN observed'.dune.rows[d].message_count ELSE 0)
  /\ daily_metrics'[d].total_fee_usd = ProductOfAnalytics(observed'.dune.rows, d)

\* C28 amended: a sync that fails before its upsert loop (the analytics call
\* or the read of the last status entry throws) has created or changed no
\* daily record; a sync that fails at a storage write has upserted the dates
\* of its range before the failing write, all of them when the write of the
\* success entry fails, and these records stay; it has changed no other
\* record.  Its error entry records 0 records whatever was written.
C28_FailedSyncKeepsWhatItWrote ==
  [][(SyncStep /\ response'.status = 500)
       => /\ (AnalyticsFailed \/ observed'.fault = "read")
               => daily_metrics' = daily_metrics
          /\ observed'.range = None => daily_metrics' = daily_metrics
          /\ observed'.range # None
               => LET fromDate == observed'.range[1][1]
                      toDate == observed'.range[1][2]
                      n == IF toDate >= fromDate THEN toDate - fromDate + 1 ELSE 0
                  IN  /\ \A d \in (DOMAIN daily_metrics \cup DOMAIN daily_metrics')
                                    \ (fromDate..toDate) : RowKept(d)
                      /\ \E k \in 0..n :
                           /\ \A d \in fromDate..toDate :
                                IF d < fromDate + k THEN RowUpserted(d) ELSE RowKept(d)
                           /\ observed'.fault = "upsert" => k < n
                           /\ observed'.fault = "insert" => k = n
          /\ Len(sync_status') > Len(sync_status)
               => /\ AppendedOne(sync_status, sync_status')
                  /\ sync_status'[Len(sync_status')].status = "error"
                  /\ sync_status'[Len(sync_status')].messages_synced = 0]_vars

\* The second of two upserts has failed: the record of the first date is
\* stored, the error entry counts no record.
C28_Witness ==
  /\ observed.op \in Syncs
  /\ observed.fault = "upsert"
  /\ observed.range = Some(<<0, 1>>)
  /\ response.status = 500
  /\ DOMAIN daily_metrics = {0}
  /\ Len(sync_status) = 1
  /\ sync_status[1].status = "error"
  /\ sync_status[1].messages_synced = 0

\* C29: a sync invocation appends at most one entry to the status log,
\* never a success entry and an error entry both; a success entry is
\* appended only when the analytics call and every storage call of the
\* invocation have succeeded and every date of the range has been upserted
\* (the sync then answers 200), an error entry only by a sync that answers
\* 500.  A price call that fails is not a failed step: the sync goes on
\* with the fallback price.
C29_AtMostOneEntry ==
  [][SyncStep
       => /\ \/ sync_status' = sync_status
             \/ AppendedOne(sync_status, sync_status')
          /\ AppendedOne(sync_status, sync_status')
               => IF sync_status'[Len(sync_status')].status = "success"
                  THEN /\ response'.status = 200
                       /\ observed'.dune.called /\ observed'.dune.ok
                       /\ observed'.fault = "none"
                       /\ observed'.range # None
                       /\ \A d \in observed'.range[1][1]..observed'.range[1][2] :
                            RowUpserted(d)
                  ELSE /\ sync_status'[Len(sync_status')].status = "error"
                       /\ response'.status = 500
                       /\ \/ ~observed'.dune.ok
                          \/ observed'.fault # "none"]_vars

\* Every date has been upserted and the write of the success entry has
\* failed: the one entry of the invocation is the error entry.
C29_Witness ==
  /\ observed.op \in Syncs
  /\ observed.fault = "insert"
  /\ observed.range = Some(<<0, 1>>)
  /\ DOMAIN daily_metrics = {0, 1}
  /\ response.status = 500
  /\ Len(sync_status) = 1
  /\ sync_status[1].status = "error"

\* Every entry of the log is a success entry.
OnlySuccesses(log) == \A i \in 1..Len(log) : log[i].status = "success"

\* The first date of the range the i-th entry of the log stands for: a
\* success entry carries the end date and the number of dates of its range.
FirstDateOf(log, i) == log[i].last_sync_date - log[i].messages_synced + 1

\* C30: across successful syncs given no range and no force, handled one
\* after the other, the ranges are disjoint and contiguous: the first
\* starts at the program epoch and each later one the day after the end
\* date of the one before; a later sync queries and upserts no date of an
\* earlier range and leaves the records of those dates as they are.
C30_ContiguousRanges ==
  /\ [](OnlySuccesses(sync_status)
          => \A i \in 1..Len(sync_status) :
               FirstDateOf(sync_status, i) =
                 IF i = 1 THEN Epoch ELSE sync_status[i - 1].last_sync_date + 1)
  /\ [][(/\ SyncStep
         /\ OnlySuccesses(sync_status)
         /\ response'.status = 200
         /\ ~response'.skipped)
          => LET fromDate == observed'.range[1][1]
                 toDate == observed'.range[1][2]
             IN  /\ \A i \in 1..Len(sync_status) :
                      /\ sync_status[i].last_sync_date < fromDate
                      /\ \A d \in FirstDateOf(sync_status, i)..sync_status[i].last_sync_date :
                           /\ d \notin fromDate..toDate
                           /\ d \notin DOMAIN observed'.dune.rows
                           /\ RowKept(d)
                 /\ fromDate = IF Len(sync_status) = 0 THEN Epoch
                               ELSE sync_status[Len(sync_status)].last_sync_date + 1]_vars

\* Two successful syncs on consecutive days: the first over the epoch day,
\* the second over the day after.
C30_Witness ==
  /\ observed.op \in Syncs
  /\ response.status = 200
  /\ observed.range = Some(<<1, 1>>)
  /\ Len(sync_status) = 2
  /\ OnlySuccesses(sync_status)
  /\ sync_status[1].last_sync_date = 0 /\ sync_status[1].messages_synced = 1
  /\ sync_status[2].last_sync_date = 1 /\ sync_status[2].messages_synced = 1
  /\ DOMAIN daily_metrics = {0, 1}

====
